---- MODULE Spec2Model ----
(***************************************************************************)
(* Model of the QA report pipeline:                                        *)
(*   scripts/build_dashboard.py  get_color, the grouping loop of           *)
(*                               build_dashboard and the date window       *)
(*   scripts/encryptor.py        _derive_key, _pack_encrypted,             *)
(*                               _unpack_encrypted, encrypt_data,          *)
(*                               decrypt_data, encrypt_file,               *)
(*                               decrypt_file_to_bytes,                    *)
(*                               decrypt_file_to_path                      *)
(*   scripts/process_attachments.py  extract_html_from_encrypted_zip, main *)
(*   scripts/parse_html.py       the load of results.json, main            *)
(*                                                                         *)
(* JSON values are tagged records, so that a missing key, a null, a number *)
(* and a string stay distinguishable.  A string is the sequence of its     *)
(* characters' codes and is compared as Python compares str: character by  *)
(* character, a proper prefix being smaller.  A timestamp is the string    *)
(* <<day, hour>>: the zero-padded, fixed-width UTC form "YYYY-MM-DDTHH..Z" *)
(* with the date collapsed to one character and the time of day to one.    *)
(***************************************************************************)
EXTENDS Integers, Sequences, FiniteSets, TLC

VARIABLES
    results,    \* build_dashboard: the list load_results() returned
    i,          \* build_dashboard: number of records the loop has completed
    data,       \* build_dashboard: (project, suite, date) -> kept record
    pc,         \* build_dashboard: "loop", "raised", "empty", "rendered"
    page,       \* build_dashboard: what the HTML holds once rendered
    record,     \* get_color: the record being classified
    color,      \* get_color: its result ("" before the call)
    plaintext,  \* encrypt_data: the payload of the last call
    password,   \* encrypt_data: the password of the last call
    salt,       \* encrypt_data: the salt os.urandom returned
    nonce,      \* encrypt_data: the nonce os.urandom returned
    blob,       \* the encrypted blob at hand
    intact,     \* TRUE while blob is the one encrypt_data returned
    enc,        \* outcome of the last encrypt_data call
    dec,        \* outcome of the last decrypt_data call
    fs,         \* files: path -> file, for the paths the call can touch
    fs0,        \* files: fs as it was when the call started
    call,       \* files: the function called and its arguments
    fpc,        \* files: the statement the call is at
    loc,        \* files: the local variables of the call
    ret,        \* files: what the call returned or raised
    log         \* files: the os.replace and os.remove calls made, in order

vars == <<results, i, data, pc, page, record, color,
          plaintext, password, salt, nonce, blob, intact, enc, dec,
          fs, fs0, call, fpc, loc, ret, log>>

dashVars == <<results, i, data, pc, page>>
colorVars == <<record, color>>
codecVars == <<plaintext, password, salt, nonce, blob, intact, enc, dec>>
fileVars == <<fs, fs0, call, fpc, loc, ret, log>>

(***************************************************************************)
(* Bounds of the model.                                                    *)
(***************************************************************************)
MaxRecords == 3     \* longest results list enumerated in full
MaxCount == 2       \* largest test count given to get_color
MaxPayload == 2     \* longest plaintext, in bytes
MaxByte == 1        \* payload and random bytes are 0..MaxByte
HistoryExtra == 1   \* the long histories hold up to 365 + HistoryExtra dates
MaxFlip == 1        \* a changed byte moves by 1..MaxFlip

(***************************************************************************)
(* JSON values and the Python operations the code applies to them.         *)
(***************************************************************************)
Absent == [kind |-> "absent", n |-> 0, s |-> <<>>]
Null == [kind |-> "null", n |-> 0, s |-> <<>>]
IntV(n) == [kind |-> "int", n |-> n, s |-> <<>>]
StrV(s) == [kind |-> "str", n |-> 0, s |-> s]

\* dict.get(key, default)
Get(v, default) == IF v.kind = "absent" THEN default ELSE v

\* bool(v)
Truthy(v) ==
    \/ v.kind = "int" /\ v.n # 0
    \/ v.kind = "str" /\ v.s # <<>>

\* a or b
Or(a, b) == IF Truthy(a) THEN a ELSE b

\* str.__gt__: the first differing character decides, a longer string wins
RECURSIVE LexGreater(_, _)
LexGreater(a, b) ==
    IF a = <<>> THEN FALSE
    ELSE IF b = <<>> THEN TRUE
    ELSE IF Head(a) # Head(b) THEN Head(a) > Head(b)
    ELSE LexGreater(Tail(a), Tail(b))

\* faulty variant of PyGreater: every comparison of two strings succeeds
PyGreaterAlwaysTrue(a, b) ==
    IF a.kind = "str" /\ b.kind = "str" THEN "true" ELSE "TypeError"

\* a > b on values: "TypeError" unless both are strings
PyGreater(a, b) ==
    IF a.kind = "str" /\ b.kind = "str"
    THEN (IF LexGreater(a.s, b.s) THEN "true" ELSE "false")
    ELSE "TypeError"

(***************************************************************************)
(* get_color                                                               *)
(***************************************************************************)
\* record.get(field, 0) or 0
Count(v) == Or(Get(v, IntV(0)), IntV(0)).n

\* faulty variant of get_color: the sub-counts are not added up
get_color_no_sum_check(r) ==
    IF Count(r.passed) = Count(r.test_cases)
    THEN (IF Count(r.retry_count) > 0 THEN "yellow" ELSE "green")
    ELSE "red"

get_color(r) ==
    LET total == Count(r.test_cases)
        passed == Count(r.passed)
        failed == Count(r.failed)
        errored == Count(r.error)
        incomplete == Count(r.incomplete)
        skipped == Count(r.skipped)
        retry == Count(r.retry_count)
        total_calc == passed + failed + errored + incomplete + skipped
    IN  IF total_calc # total THEN "red"
        ELSE IF passed = total
             THEN (IF retry > 0 THEN "yellow" ELSE "green")
        ELSE "red"

(***************************************************************************)
(* Records of results.json, as parse_html.py writes them: every key is     *)
(* present, possibly null; "end" may also be missing in a hand-written     *)
(* file.  "color" is "" until build_dashboard sets it.                     *)
(***************************************************************************)
Timestamp(day, hour) == StrV(<<day, hour>>)

\* two times of one day and a time of the next day
Timestamps == {Timestamp(1, 1), Timestamp(1, 2), Timestamp(2, 1)}

\* a run does not end before it starts
Ordered(start, end) ==
    (start.kind = "str" /\ end.kind = "str") => ~LexGreater(start.s, end.s)

Rec(project, suite, start, end, passed) ==
    [project |-> project, test_suite_id |-> suite,
     start |-> start, end |-> end,
     test_cases |-> IntV(1), passed |-> IntV(passed),
     failed |-> IntV(1 - passed), error |-> IntV(0),
     incomplete |-> Null, skipped |-> Null,
     retry_count |-> IntV(0), color |-> ""]

Records ==
    {Rec("P1", "S1", s, e, 1) :
        s \in {Null} \cup Timestamps,
        e \in {Absent, Null} \cup Timestamps}

RecordUniverse == {r \in Records : Ordered(r.start, r.end)}

\* the results lists of n records
ShortInputs(n) == [1..n -> RecordUniverse]

(***************************************************************************)
(* build_dashboard: the grouping loop                                      *)
(***************************************************************************)
\* faulty variant of DateSource: the end timestamp is tried first
DateSourceEndFirst(r) == Or(Get(r.end, Null), Get(r.start, Null))

\* start = r.get("start") or r.get("end")
DateSource(r) == Or(Get(r.start, Null), Get(r.end, Null))

\* datetime.fromisoformat(start.replace("Z", "+00:00")).strftime("%Y.%m.%d")
StrfDate(ts) == SubSeq(ts.s, 1, 1)

Key(r) ==
    [project |-> r.project, suite |-> r.test_suite_id,
     date |-> StrfDate(DateSource(r))]

\* faulty variant of Replaces: the start timestamps are compared
ReplacesComparingStart(r, old) ==
    PyGreater(Get(r.start, StrV(<<>>)), Get(old.start, StrV(<<>>)))

\* r.get("end", "") > data[project][suite][date].get("end", "")
Replaces(r, old) ==
    PyGreater(Get(r.end, StrV(<<>>)), Get(old.end, StrV(<<>>)))

Put(d, k, v) == [x \in DOMAIN d \cup {k} |-> IF x = k THEN v ELSE d[x]]

\* one iteration of "for r in results" on the index d
IngestStep(d, r) ==
    IF ~Truthy(DateSource(r))
    THEN [data |-> d, outcome |-> "skipped"]
    ELSE LET k == Key(r)
             stored == [r EXCEPT !.color = get_color(r)]
         IN  IF k \notin DOMAIN d
             THEN [data |-> Put(d, k, stored), outcome |-> "stored"]
             ELSE LET cmp == Replaces(r, d[k])
                  IN  IF cmp = "TypeError"
                      THEN [data |-> d, outcome |-> "TypeError"]
                      ELSE IF cmp = "true"
                      THEN [data |-> Put(d, k, stored), outcome |-> "stored"]
                      ELSE [data |-> d, outcome |-> "kept"]

EmptyIndex == [k \in {} |-> Rec("", "", Null, Null, 0)]

\* the whole loop over rs: the index, or "TypeError" once an iteration raises
RECURSIVE IngestFrom(_, _)
IngestFrom(d, rs) ==
    IF rs = <<>> THEN [data |-> d, outcome |-> "done"]
    ELSE LET st == IngestStep(d, Head(rs))
         IN  IF st.outcome = "TypeError"
             THEN [data |-> EmptyIndex, outcome |-> "TypeError"]
             ELSE IngestFrom(st.data, Tail(rs))

Ingest(rs) == IngestFrom(EmptyIndex, rs)

(***************************************************************************)
(* build_dashboard: the date columns and the page                          *)
(***************************************************************************)
WindowSize == 365

\* sorted(S, reverse=True), S a set of strings
RECURSIVE SortedDesc(_)
SortedDesc(S) ==
    IF S = {} THEN <<>>
    ELSE LET half == Cardinality(S) \div 2
             p == CHOOSE x \in S :
                      Cardinality({e \in S : LexGreater(e, x)}) = half
         IN  SortedDesc({e \in S : LexGreater(e, p)}) \o <<p>>
                 \o SortedDesc({e \in S : LexGreater(p, e)})

Range(q) == {q[j] : j \in DOMAIN q}

Min(a, b) == IF a < b THEN a ELSE b

\* faulty variant of AllDates: each suite keeps its own 365 latest dates
AllDatesPerSuite(d) ==
    LET later(k) == {x \in DOMAIN d : x.project = k.project /\ x.suite = k.suite
                                      /\ LexGreater(x.date, k.date)}
        kept == {k.date : k \in {x \in DOMAIN d : Cardinality(later(x)) < WindowSize}}
    IN  SortedDesc(kept)

\* sorted({d for proj in data.values() for suite in proj.values()
\*         for d in suite.keys()}, reverse=True)[:365]
AllDates(d) ==
    LET sorted == SortedDesc({k.date : k \in DOMAIN d})
    IN  SubSeq(sorted, 1, Min(WindowSize, Len(sorted)))

\* the page: the header's date columns, the object of "const data = ..." and
\* the keys that get a coloured cell in the table
NoPage == [all_dates |-> <<>>, data |-> EmptyIndex, cells |-> {}]

RenderPage(d) ==
    LET all_dates == AllDates(d)
    IN  [all_dates |-> all_dates,
         data |-> d,
         cells |-> {k \in DOMAIN d : k.date \in Range(all_dates)}]

(***************************************************************************)
(* Actions of build_dashboard                                              *)
(***************************************************************************)
\* "if not results: return"
ReturnEmpty ==
    /\ pc = "loop"
    /\ results = <<>>
    /\ pc' = "empty"
    /\ UNCHANGED <<results, i, data, page>>
    /\ UNCHANGED <<colorVars, codecVars, fileVars>>

\* one iteration of "for r in results"; a TypeError leaves the function
LoopStep ==
    /\ pc = "loop"
    /\ i < Len(results)
    /\ LET st == IngestStep(data, results[i + 1])
       IN  IF st.outcome = "TypeError"
           THEN /\ pc' = "raised"
                /\ UNCHANGED <<i, data>>
           ELSE /\ i' = i + 1
                /\ data' = st.data
                /\ pc' = pc
    /\ UNCHANGED <<results, page>>
    /\ UNCHANGED <<colorVars, codecVars, fileVars>>

\* everything after the loop: the columns, the embedded data, the table
Render ==
    /\ pc = "loop"
    /\ results # <<>>
    /\ i = Len(results)
    /\ page' = RenderPage(data)
    /\ pc' = "rendered"
    /\ UNCHANGED <<results, i, data>>
    /\ UNCHANGED <<colorVars, codecVars, fileVars>>

(***************************************************************************)
(* Long inputs for the date window: one suite with a record a day for n    *)
(* days, followed by one more record of either suite.                      *)
(***************************************************************************)
History(n) ==
    [d \in 1..n |-> Rec("P1", "S1", Timestamp(d, 1), Timestamp(d, 2), 1)]

TailRecords ==
    {Rec("P1", su, s, e, 1) :
        su \in {"S1", "S2"},
        s \in {Null, Timestamp(1, 1)},
        e \in {Null, Timestamp(1, 1)}}

LongInputs ==
    {<<>>} \cup
    {Append(History(n), r) :
        n \in (WindowSize - 1)..(WindowSize + HistoryExtra), r \in TailRecords}

(***************************************************************************)
(* Actions of get_color                                                    *)
(***************************************************************************)
CountValues == {Absent, Null} \cup {IntV(n) : n \in 0..MaxCount}

ColorInputs ==
    [project : {"P1"}, test_suite_id : {"S1"},
     start : {Timestamp(1, 1)}, end : {Timestamp(1, 1)},
     test_cases : CountValues, passed : CountValues, failed : CountValues,
     error : CountValues, incomplete : CountValues, skipped : CountValues,
     retry_count : CountValues, color : {""}]

NoRecord == Rec("", "", Null, Null, 0)

Classify ==
    /\ color = ""
    /\ color' = get_color(record)
    /\ UNCHANGED record
    /\ UNCHANGED <<dashVars, codecVars, fileVars>>

(***************************************************************************)
(* encryptor.py.  Bytes are numbers 0..255.  PBKDF2 and AES-GCM are the    *)
(* cryptography package's: the key is the pair it was derived from, the    *)
(* cipher adds a keystream to the plaintext and appends a 16-byte tag that *)
(* digests key, nonce and ciphertext.                                      *)
(***************************************************************************)
SALT_SIZE == 16
NONCE_SIZE == 12
TAG_SIZE == 16

\* the value standing for Python's None where a password is expected
NoPassword == "<None>"

Passwords == {NoPassword, "", "pw1", "pw2"}

\* "not password"
PasswordMissing(pw) == pw \in {NoPassword, ""}

PwCode(pw) == CASE pw = "pw1" -> 1 [] pw = "pw2" -> 2 [] OTHER -> 0

RECURSIVE WSum(_)
WSum(q) == IF q = <<>> THEN 0 ELSE Len(q) * q[Len(q)] + WSum(SubSeq(q, 1, Len(q) - 1))

\* faulty variant of DeriveKey: the key does not depend on the password
DeriveKeyFromSaltOnly(pw, s) ==
    IF Len(s) < 8
    THEN [ok |-> FALSE, pw |-> "", salt |-> <<>>]
    ELSE [ok |-> TRUE, pw |-> "pw1", salt |-> s]

\* _derive_key
DeriveKey(pw, s) ==
    IF Len(s) < 8
    THEN [ok |-> FALSE, pw |-> "", salt |-> <<>>]
    ELSE [ok |-> TRUE, pw |-> pw, salt |-> s]

KeyStream(key, n, j) == (PwCode(key.pw) + WSum(key.salt) + WSum(n) + j) % 256

\* the tag digests the key, the nonce and the ciphertext; each digest is
\* written three times, so that no change of one byte of a tag yields the
\* tag of another key, nonce or ciphertext
Tag(key, n, body) ==
    [j \in 1..TAG_SIZE |->
        CASE j = TAG_SIZE -> 0
          [] j % 5 = 1 -> PwCode(key.pw)
          [] j % 5 = 2 -> WSum(key.salt) % 256
          [] j % 5 = 3 -> WSum(n) % 256
          [] j % 5 = 4 -> Len(body) % 256
          [] OTHER -> WSum(body) % 256]

\* AESGCM(key).encrypt(nonce, plaintext, None)
AesGcmEncrypt(key, n, p) ==
    LET body == [j \in 1..Len(p) |-> (p[j] + KeyStream(key, n, j)) % 256]
    IN  body \o Tag(key, n, body)

\* AESGCM(key).decrypt(nonce, data, None): InvalidTag unless the tag matches
AesGcmDecrypt(key, n, d) ==
    IF Len(d) < TAG_SIZE
    THEN [ok |-> FALSE, out |-> <<>>]
    ELSE LET body == SubSeq(d, 1, Len(d) - TAG_SIZE)
             tag == SubSeq(d, Len(d) - TAG_SIZE + 1, Len(d))
         IN  IF tag # Tag(key, n, body)
             THEN [ok |-> FALSE, out |-> <<>>]
             ELSE [ok |-> TRUE,
                   out |-> [j \in 1..Len(body) |->
                              (body[j] - KeyStream(key, n, j) + 256) % 256]]

\* faulty variant of PackEncrypted: the nonce is written before the salt
PackNonceFirst(s, n, ciphertext) == n \o s \o ciphertext

\* _pack_encrypted
PackEncrypted(s, n, ciphertext) == s \o n \o ciphertext

\* _unpack_encrypted: "ValueError" for a blob too small
UnpackEncrypted(b) ==
    IF Len(b) < SALT_SIZE + NONCE_SIZE + 1
    THEN [ok |-> FALSE, salt |-> <<>>, nonce |-> <<>>, ciphertext |-> <<>>]
    ELSE [ok |-> TRUE,
          salt |-> SubSeq(b, 1, SALT_SIZE),
          nonce |-> SubSeq(b, SALT_SIZE + 1, SALT_SIZE + NONCE_SIZE),
          ciphertext |-> SubSeq(b, SALT_SIZE + NONCE_SIZE + 1, Len(b))]

\* faulty variant of EncryptData: the password is not looked at
EncryptDataUnchecked(p, pw, s, n) ==
    [status |-> "ok",
     blob |-> PackEncrypted(s, n, AesGcmEncrypt(DeriveKey(pw, s), n, p))]

\* encrypt_data, with the salt and the nonce os.urandom returns
EncryptData(p, pw, s, n) ==
    IF PasswordMissing(pw)
    THEN [status |-> "EmptyPassword", blob |-> <<>>]
    ELSE [status |-> "ok",
          blob |-> PackEncrypted(s, n, AesGcmEncrypt(DeriveKey(pw, s), n, p))]

\* decrypt_data; derived and opened record the calls of _derive_key and of
\* AESGCM.decrypt
DecryptData(b, pw) ==
    IF PasswordMissing(pw)
    THEN [status |-> "EmptyPassword", out |-> <<>>,
          derived |-> FALSE, opened |-> FALSE]
    ELSE LET u == UnpackEncrypted(b)
         IN  IF ~u.ok
             THEN [status |-> "MalformedBlob", out |-> <<>>,
                   derived |-> FALSE, opened |-> FALSE]
             ELSE LET key == DeriveKey(pw, u.salt)
                      res == AesGcmDecrypt(key, u.nonce, u.ciphertext)
                  IN  IF res.ok
                      THEN [status |-> "ok", out |-> res.out,
                            derived |-> TRUE, opened |-> TRUE]
                      ELSE [status |-> "InvalidTag", out |-> <<>>,
                            derived |-> TRUE, opened |-> TRUE]

Bytes == 0..MaxByte

Payloads == UNION {[1..n -> Bytes] : n \in 0..MaxPayload}

\* the values os.urandom(n) is drawn from
RandomBytes(n) == {[j \in 1..n |-> IF j = 1 THEN a ELSE 0] : a \in Bytes}

NoOutcome ==
    [status |-> "none", out |-> <<>>, derived |-> FALSE, opened |-> FALSE,
     pw |-> ""]

(***************************************************************************)
(* Actions of the codec                                                    *)
(***************************************************************************)
Encrypt ==
    /\ enc = "none"
    /\ \E p \in Payloads, pw \in Passwords,
          s \in RandomBytes(SALT_SIZE), n \in RandomBytes(NONCE_SIZE) :
          LET res == EncryptData(p, pw, s, n)
          IN  /\ plaintext' = p
              /\ password' = pw
              /\ salt' = s
              /\ nonce' = n
              /\ enc' = res.status
              /\ blob' = res.blob
              /\ intact' = (res.status = "ok")
    /\ UNCHANGED dec
    /\ UNCHANGED <<dashVars, colorVars, fileVars>>

\* the stored blob loses its tail (a short read, a cut-off file)
Truncate ==
    /\ enc = "ok"
    /\ dec.status = "none"
    /\ intact
    /\ \E n \in 0..(Len(blob) - 1) : blob' = SubSeq(blob, 1, n)
    /\ intact' = FALSE
    /\ UNCHANGED <<plaintext, password, salt, nonce, enc, dec>>
    /\ UNCHANGED <<dashVars, colorVars, fileVars>>

\* one byte of the stored blob is changed, in the salt, the nonce, the
\* ciphertext or the tag
Tamper ==
    /\ enc = "ok"
    /\ dec.status = "none"
    /\ intact
    /\ \E j \in 1..Len(blob), d \in 1..MaxFlip :
          blob' = [blob EXCEPT ![j] = (@ + d) % 256]
    /\ intact' = FALSE
    /\ UNCHANGED <<plaintext, password, salt, nonce, enc, dec>>
    /\ UNCHANGED <<dashVars, colorVars, fileVars>>

Decrypt ==
    /\ enc = "ok"
    /\ dec.status = "none"
    /\ \E pw \in Passwords :
          LET res == DecryptData(blob, pw)
          IN  dec' = [status |-> res.status, out |-> res.out,
                      derived |-> res.derived, opened |-> res.opened,
                      pw |-> pw]
    /\ UNCHANGED <<plaintext, password, salt, nonce, blob, intact, enc>>
    /\ UNCHANGED <<dashVars, colorVars, fileVars>>

(***************************************************************************)
(* Files.  A path is the sequence of the pieces it was joined from, so     *)
(* that in_path + ".enc" is Append(in_path, ".enc") and two paths name the *)
(* same file exactly when they are equal.  A file system maps each path a  *)
(* call can touch to a file or to NoFile.                                  *)
(***************************************************************************)
NoPath == <<>>

NoFile == [here |-> FALSE, bytes |-> <<>>]

File(b) == [here |-> TRUE, bytes |-> b]

\* open(p, "wb") and f.write: p holds b
FsPut(f, p, b) == [f EXCEPT ![p] = File(b)]

\* os.replace(src, dst): one atomic rename
FsReplace(f, src, dst) ==
    [q \in DOMAIN f |-> IF q = dst THEN f[src]
                        ELSE IF q = src THEN NoFile ELSE f[q]]

\* os.remove(p)
FsRemove(f, p) == [f EXCEPT ![p] = NoFile]

\* what a write of target can have put into a file that holds cur so far:
\* a longer prefix of target, the last being target itself.  The prefixes
\* are the first byte, salt and nonce, all but the last byte, and all.
WriteSteps(cur, target) ==
    IF target = <<>>
    THEN {<<>>}
    ELSE {SubSeq(target, 1, n) :
             n \in {1, SALT_SIZE + NONCE_SIZE, Len(target) - 1, Len(target)}
                      \cap (Len(cur) + 1)..Len(target)}

\* in_path + ".enc"
DefaultOut(in_path) == Append(in_path, ".enc")

\* faulty variant of TmpPath: the blob is written in place
TmpPathInPlace(out_path) == out_path

\* out_path + ".tmp"
TmpPath(out_path) == Append(out_path, ".tmp")

PathA == <<"a">>
PathB == <<"b">>
PathBTmp == Append(PathB, ".tmp")

\* a file left behind by something else
Stale == <<7>>

NoCall ==
    [op |-> "none", in_path |-> NoPath, password |-> "", out_path |-> NoPath,
     remove |-> FALSE]

NoLocals ==
    [data |-> <<>>, enc |-> <<>>, plaintext |-> <<>>, out_path |-> NoPath,
     tmp_path |-> NoPath, todo |-> <<>>, results |-> <<>>]

NoReturn == [kind |-> "none", path |-> NoPath]

Raised(kind) == [kind |-> kind, path |-> NoPath]

Returned(path) == [kind |-> "path", path |-> path]

\* the out_path encrypt_file writes to (lines 114-115)
EffectiveOut(c) ==
    IF c.out_path = NoPath THEN DefaultOut(c.in_path) ELSE c.out_path

\* encrypt_file(in_path, password, out_path, remove_original); out_path may
\* be None, in_path itself, or the path whose temporary file is in_path
EncryptCalls ==
    [op : {"encrypt_file"}, in_path : {PathA, PathBTmp},
     password : {NoPassword, "", "pw1"}, out_path : {NoPath, PathA, PathB},
     remove : BOOLEAN]

\* decrypt_file_to_path(enc_path, password, out_path, remove_encrypted)
DecryptCalls ==
    [op : {"decrypt_file_to_path"}, in_path : {PathA},
     password : {"", "pw1", "pw2"}, out_path : {PathA, PathB},
     remove : BOOLEAN]

\* the paths a call can touch
Touched(c) ==
    LET out == EffectiveOut(c)
    IN  {c.in_path, out, TmpPath(out)}

\* what in_path can hold when the call starts
SourceFiles(c) ==
    IF c.op = "encrypt_file"
    THEN {NoFile, File(<<>>), File(<<1, 0>>)}
    ELSE LET stored == EncryptData(<<1, 0>>, "pw1",
                                   [j \in 1..SALT_SIZE |-> 0],
                                   [j \in 1..NONCE_SIZE |-> 0]).blob
         IN  {NoFile, File(stored), File(SubSeq(stored, 1, Len(stored) - 1))}

\* the file systems a call can start in
InitialFs(c) ==
    {f \in [Touched(c) -> SourceFiles(c) \cup {File(Stale)}] :
        /\ f[c.in_path] \in SourceFiles(c)
        /\ \A q \in Touched(c) \ {c.in_path} : f[q] \in {NoFile, File(Stale)}}

Running == fpc \notin {"idle", "returned", "raised", "crashed"}

(***************************************************************************)
(* Actions of encrypt_file                                                 *)
(***************************************************************************)
\* lines 111-115
EncCheck ==
    /\ call.op = "encrypt_file"
    /\ fpc = "check"
    /\ IF ~fs[call.in_path].here
       THEN /\ ret' = Raised("FileNotFoundError")
            /\ fpc' = "raised"
            /\ UNCHANGED loc
       ELSE /\ loc' = [loc EXCEPT !.out_path = EffectiveOut(call)]
            /\ fpc' = "read"
            /\ UNCHANGED ret
    /\ UNCHANGED <<fs, fs0, call, log>>
    /\ UNCHANGED <<dashVars, colorVars, codecVars>>

\* lines 118-119
EncRead ==
    /\ call.op = "encrypt_file"
    /\ fpc = "read"
    /\ loc' = [loc EXCEPT !.data = fs[call.in_path].bytes]
    /\ fpc' = "encrypt"
    /\ UNCHANGED <<fs, fs0, call, ret, log>>
    /\ UNCHANGED <<dashVars, colorVars, codecVars>>

\* line 121
EncEncrypt ==
    /\ call.op = "encrypt_file"
    /\ fpc = "encrypt"
    /\ \E s \in RandomBytes(SALT_SIZE), n \in RandomBytes(NONCE_SIZE) :
          LET res == EncryptData(loc.data, call.password, s, n)
          IN  IF res.status # "ok"
              THEN /\ ret' = Raised("ValueError")
                   /\ fpc' = "raised"
                   /\ UNCHANGED loc
              ELSE /\ loc' = [loc EXCEPT !.enc = res.blob]
                   /\ fpc' = "open"
                   /\ UNCHANGED ret
    /\ UNCHANGED <<fs, fs0, call, log>>
    /\ UNCHANGED <<dashVars, colorVars, codecVars>>

\* lines 124-125: the temporary file is created or emptied
EncOpen ==
    /\ call.op = "encrypt_file"
    /\ fpc = "open"
    /\ loc' = [loc EXCEPT !.tmp_path = TmpPath(loc.out_path)]
    /\ fs' = FsPut(fs, TmpPath(loc.out_path), <<>>)
    /\ fpc' = "write"
    /\ UNCHANGED <<fs0, call, ret, log>>
    /\ UNCHANGED <<dashVars, colorVars, codecVars>>

\* line 126: the bytes reach the file in one piece or in several
EncWrite ==
    /\ call.op = "encrypt_file"
    /\ fpc = "write"
    /\ \E b \in WriteSteps(fs[loc.tmp_path].bytes, loc.enc) :
          /\ fs' = FsPut(fs, loc.tmp_path, b)
          /\ fpc' = IF b = loc.enc THEN "replace" ELSE "write"
    /\ UNCHANGED <<fs0, call, loc, ret, log>>
    /\ UNCHANGED <<dashVars, colorVars, codecVars>>

\* line 127
EncReplace ==
    /\ call.op = "encrypt_file"
    /\ fpc = "replace"
    /\ fs' = FsReplace(fs, loc.tmp_path, loc.out_path)
    /\ log' = Append(log, [op |-> "replace", path |-> loc.out_path])
    /\ fpc' = "remove"
    /\ UNCHANGED <<fs0, call, loc, ret>>
    /\ UNCHANGED <<dashVars, colorVars, codecVars>>

\* lines 129-135: an os.remove that fails is ignored
EncRemove ==
    /\ call.op = "encrypt_file"
    /\ fpc = "remove"
    /\ IF call.remove /\ fs[call.in_path].here
       THEN /\ fs' = FsRemove(fs, call.in_path)
            /\ log' = Append(log, [op |-> "remove", path |-> call.in_path])
       ELSE UNCHANGED <<fs, log>>
    /\ ret' = Returned(loc.out_path)
    /\ fpc' = "returned"
    /\ UNCHANGED <<fs0, call, loc>>
    /\ UNCHANGED <<dashVars, colorVars, codecVars>>

(***************************************************************************)
(* Actions of decrypt_file_to_path                                         *)
(***************************************************************************)
\* line 154: decrypt_file_to_bytes (lines 142-146)
DecRead ==
    /\ call.op = "decrypt_file_to_path"
    /\ fpc = "check"
    /\ IF ~fs[call.in_path].here
       THEN /\ ret' = Raised("FileNotFoundError")
            /\ fpc' = "raised"
            /\ UNCHANGED loc
       ELSE LET res == DecryptData(fs[call.in_path].bytes, call.password)
            IN  IF res.status # "ok"
                THEN /\ ret' = Raised(res.status)
                     /\ fpc' = "raised"
                     /\ UNCHANGED loc
                ELSE /\ loc' = [loc EXCEPT !.data = fs[call.in_path].bytes,
                                           !.plaintext = res.out,
                                           !.out_path = call.out_path]
                     /\ fpc' = "open"
                     /\ UNCHANGED ret
    /\ UNCHANGED <<fs, fs0, call, log>>
    /\ UNCHANGED <<dashVars, colorVars, codecVars>>

\* lines 155-156
DecOpen ==
    /\ call.op = "decrypt_file_to_path"
    /\ fpc = "open"
    /\ loc' = [loc EXCEPT !.tmp_path = TmpPath(loc.out_path)]
    /\ fs' = FsPut(fs, TmpPath(loc.out_path), <<>>)
    /\ fpc' = "write"
    /\ UNCHANGED <<fs0, call, ret, log>>
    /\ UNCHANGED <<dashVars, colorVars, codecVars>>

\* line 157
DecWrite ==
    /\ call.op = "decrypt_file_to_path"
    /\ fpc = "write"
    /\ \E b \in WriteSteps(fs[loc.tmp_path].bytes, loc.plaintext) :
          /\ fs' = FsPut(fs, loc.tmp_path, b)
          /\ fpc' = IF b = loc.plaintext THEN "replace" ELSE "write"
    /\ UNCHANGED <<fs0, call, loc, ret, log>>
    /\ UNCHANGED <<dashVars, colorVars, codecVars>>

\* line 158
DecReplace ==
    /\ call.op = "decrypt_file_to_path"
    /\ fpc = "replace"
    /\ fs' = FsReplace(fs, loc.tmp_path, loc.out_path)
    /\ log' = Append(log, [op |-> "replace", path |-> loc.out_path])
    /\ fpc' = "remove"
    /\ UNCHANGED <<fs0, call, loc, ret>>
    /\ UNCHANGED <<dashVars, colorVars, codecVars>>

\* lines 159-164
DecRemove ==
    /\ call.op = "decrypt_file_to_path"
    /\ fpc = "remove"
    /\ IF call.remove /\ fs[call.in_path].here
       THEN /\ fs' = FsRemove(fs, call.in_path)
            /\ log' = Append(log, [op |-> "remove", path |-> call.in_path])
       ELSE UNCHANGED <<fs, log>>
    /\ ret' = Returned(loc.out_path)
    /\ fpc' = "returned"
    /\ UNCHANGED <<fs0, call, loc>>
    /\ UNCHANGED <<dashVars, colorVars, codecVars>>

(***************************************************************************)
(* process_attachments.py.  An archive is the byte 80, a byte telling      *)
(* whether it has an HTML member, and that member's bytes.  encryptor.py   *)
(* has no encrypt_bytes_to_file and its decrypt_file_to_bytes wants a      *)
(* password: the two calls are modelled as the store's put and get under   *)
(* REPORT_PASSWORD.                                                        *)
(***************************************************************************)
Zip1 == <<"data/attachments", "r1", ".zip">>
Zip2 == <<"data/attachments", "r2", ".zip">>

\* lines 30-31
HtmlPath(zip_path) == <<"data/html", zip_path[2], ".html">>

ArchiveWith(html) == <<80, 1>> \o html

ArchiveWithout == <<80, 0>>

\* zipfile.ZipFile(...), namelist and read of the first HTML member
Unzip(b) ==
    IF Len(b) < 2 \/ b[1] # 80
    THEN [kind |-> "BadZipFile", html |-> <<>>]
    ELSE IF b[2] # 1
         THEN [kind |-> "NoHtml", html |-> <<>>]
         ELSE [kind |-> "ok", html |-> SubSeq(b, 3, Len(b))]

\* decrypt_file_to_bytes(encrypted_zip_path), then lines 23-35
ExtractHtml(f, zip_path, pw) ==
    LET res == DecryptData(f[zip_path].bytes, pw)
    IN  IF ~f[zip_path].here \/ res.status # "ok"
        THEN [kind |-> "DecryptFailed", html |-> <<>>]
        ELSE Unzip(res.out)

\* main(), REPORT_PASSWORD being call.password
MainCalls ==
    [op : {"main"}, in_path : {NoPath}, password : {NoPassword, "pw1"},
     out_path : {NoPath}, remove : {FALSE}]

\* what an attachment can be: encrypted under REPORT_PASSWORD or another
\* password, with an HTML member or without
ZipFiles ==
    LET zeros(n) == [j \in 1..n |-> 0]
        stored(b, pw) ==
            File(EncryptData(b, pw, zeros(SALT_SIZE), zeros(NONCE_SIZE)).blob)
    IN  {NoFile, stored(ArchiveWith(<<1>>), "pw1"),
         stored(ArchiveWithout, "pw1"), stored(ArchiveWith(<<1>>), "pw2")}

MainPaths ==
    {Zip1, Zip2} \cup {HtmlPath(z) : z \in {Zip1, Zip2}}
                 \cup {TmpPath(HtmlPath(z)) : z \in {Zip1, Zip2}}

MainFs ==
    {f \in [MainPaths -> ZipFiles \cup {File(Stale)}] :
        /\ \A z \in {Zip1, Zip2} :
              /\ f[z] \in ZipFiles
              /\ f[HtmlPath(z)] \in {NoFile, File(Stale)}
              /\ f[TmpPath(HtmlPath(z))] = NoFile}

\* os.listdir: the files present, in any order
Listings(S) ==
    {q \in [1..Cardinality(S) -> S] : \A j, k \in 1..Cardinality(S) :
                                         q[j] = q[k] => j = k}

\* faulty variant of HtmlPathTruthy: the ZIP is removed whatever was returned
HtmlPathIgnored(html_path) == TRUE

\* "if html_path"
HtmlPathTruthy(html_path) == html_path # NoPath

\* where main goes after a ZIP
AfterZip(todo) == IF Len(todo) > 1 THEN "extract" ELSE "returned"

(***************************************************************************)
(* Actions of process_attachments.main                                     *)
(***************************************************************************)
\* lines 49-57
MainList ==
    /\ call.op = "main"
    /\ fpc = "check"
    /\ \E q \in Listings({z \in {Zip1, Zip2} : fs[z].here}) :
          IF q = <<>> \/ PasswordMissing(call.password)
          THEN /\ ret' = Returned(NoPath)
               /\ fpc' = "returned"
               /\ UNCHANGED loc
          ELSE /\ loc' = [loc EXCEPT !.todo = q]
               /\ fpc' = "extract"
               /\ UNCHANGED ret
    /\ UNCHANGED <<fs, fs0, call, log>>
    /\ UNCHANGED <<dashVars, colorVars, codecVars>>

\* lines 60-61 and 15-35: the ZIP is decrypted and its HTML read, or
\* extract_html_from_encrypted_zip returns None
Extract ==
    /\ call.op = "main"
    /\ fpc = "extract"
    /\ LET zip_path == Head(loc.todo)
           res == ExtractHtml(fs, zip_path, call.password)
       IN  IF res.kind # "ok"
           THEN /\ loc' = [loc EXCEPT !.out_path = NoPath, !.enc = <<>>]
                /\ fpc' = "decide"
           ELSE /\ loc' = [loc EXCEPT !.plaintext = res.html,
                                      !.out_path = HtmlPath(zip_path),
                                      !.enc = <<>>]
                /\ fpc' = "put"
    /\ UNCHANGED <<fs, fs0, call, ret, log>>
    /\ UNCHANGED <<dashVars, colorVars, codecVars>>

\* line 38, encrypt_bytes_to_file: the HTML is encrypted and the temporary
\* file opened
PutOpen ==
    /\ call.op = "main"
    /\ fpc = "put"
    /\ \E s \in RandomBytes(SALT_SIZE), n \in RandomBytes(NONCE_SIZE) :
          loc' = [loc EXCEPT
                     !.enc = EncryptData(loc.plaintext, call.password, s, n).blob,
                     !.tmp_path = TmpPath(loc.out_path)]
    /\ fs' = FsPut(fs, TmpPath(loc.out_path), <<>>)
    /\ fpc' = "write"
    /\ UNCHANGED <<fs0, call, ret, log>>
    /\ UNCHANGED <<dashVars, colorVars, codecVars>>

\* encrypt_bytes_to_file: the blob is written to the temporary file
PutWrite ==
    /\ call.op = "main"
    /\ fpc = "write"
    /\ \E b \in WriteSteps(fs[loc.tmp_path].bytes, loc.enc) :
          /\ fs' = FsPut(fs, loc.tmp_path, b)
          /\ fpc' = IF b = loc.enc THEN "replace" ELSE "write"
    /\ UNCHANGED <<fs0, call, loc, ret, log>>
    /\ UNCHANGED <<dashVars, colorVars, codecVars>>

\* encrypt_bytes_to_file: the temporary file replaces the final path, and
\* extract_html_from_encrypted_zip returns html_path (line 41)
PutReplace ==
    /\ call.op = "main"
    /\ fpc = "replace"
    /\ fs' = FsReplace(fs, loc.tmp_path, loc.out_path)
    /\ log' = Append(log, [op |-> "replace", path |-> loc.out_path])
    /\ fpc' = "decide"
    /\ UNCHANGED <<fs0, call, loc, ret>>
    /\ UNCHANGED <<dashVars, colorVars, codecVars>>

\* lines 43-46: the write raised, extract_html_from_encrypted_zip returns
\* None
PutFails ==
    /\ call.op = "main"
    /\ fpc = "write"
    /\ loc' = [loc EXCEPT !.out_path = NoPath]
    /\ fpc' = "decide"
    /\ UNCHANGED <<fs, fs0, call, ret, log>>
    /\ UNCHANGED <<dashVars, colorVars, codecVars>>

\* lines 62-65, and the next round of the loop
Decide ==
    /\ call.op = "main"
    /\ fpc = "decide"
    /\ IF HtmlPathTruthy(loc.out_path)
       THEN /\ fs' = FsRemove(fs, Head(loc.todo))
            /\ log' = Append(log, [op |-> "remove", path |-> Head(loc.todo)])
       ELSE UNCHANGED <<fs, log>>
    /\ loc' = [loc EXCEPT !.todo = Tail(loc.todo)]
    /\ fpc' = AfterZip(loc.todo)
    /\ ret' = IF AfterZip(loc.todo) = "returned" THEN Returned(NoPath) ELSE ret
    /\ UNCHANGED <<fs0, call>>
    /\ UNCHANGED <<dashVars, colorVars, codecVars>>

(***************************************************************************)
(* parse_html.py.  The files of this part are sequences of tokens.  A      *)
(* report holds one token with the number of the run it reports, or        *)
(* nothing parse_html_file can read.  results.json holds "[", one item per *)
(* record, "]"; a file cut short has no "]".                               *)
(***************************************************************************)
Report1 == <<"data/html", "r1", ".html">>
Report2 == <<"data/html", "r2", ".html">>

RESULTS_FILE == <<"data/results.json">>

\* os.path.join(PROCESSED_FOLDER, html_file)
ProcessedPath(html_path) == <<"data/html/processed", html_path[2], ".html">>

Token(t) == [tok |-> t, html_file |-> NoPath, run |-> 0]

\* the execution data embedded in a report
RunData(k) == [tok |-> "run", html_file |-> NoPath, run |-> k]

ReportFiles == {NoFile, File(<<>>), File(<<RunData(1)>>), File(<<RunData(2)>>)}

Item(r) == [tok |-> "item", html_file |-> r.html_file, run |-> r.run]

\* json.dump(results, f)
JsonDump(rs) ==
    <<Token("[")>> \o [j \in 1..Len(rs) |-> Item(rs[j])] \o <<Token("]")>>

\* json.load(f): "JSONDecodeError" unless the list is closed
JsonLoad(b) ==
    IF Len(b) < 2 \/ b[1].tok # "[" \/ b[Len(b)].tok # "]"
    THEN [ok |-> FALSE, list |-> <<>>]
    ELSE [ok |-> TRUE,
          list |-> [j \in 1..(Len(b) - 2) |->
                      [html_file |-> b[j + 1].html_file, run |-> b[j + 1].run]]]

\* parse_html_file: the record of the report (lines 65-80), or None
ParseHtmlFile(f, html_path) ==
    IF f[html_path].bytes = <<>>
    THEN [ok |-> FALSE, rec |-> [html_file |-> NoPath, run |-> 0]]
    ELSE [ok |-> TRUE,
          rec |-> [html_file |-> ProcessedPath(html_path),
                   run |-> f[html_path].bytes[1].run]]

ParseCalls ==
    [op : {"parse_main"}, in_path : {NoPath}, password : {""},
     out_path : {NoPath}, remove : {FALSE}]

ParsePaths ==
    {Report1, Report2, ProcessedPath(Report1), ProcessedPath(Report2),
     RESULTS_FILE}

\* a record stored by an earlier run
EarlierRecord == [html_file |-> <<"data/html/processed", "r0", ".html">>, run |-> 9]

\* the folders when parse_html starts: reports that parse or do not, an
\* earlier results.json that is whole, cut short, or missing
ParseFs ==
    {f \in [ParsePaths -> ReportFiles \cup
                           {File(JsonDump(<<EarlierRecord>>)),
                            File(<<Token("[")>>)}] :
        /\ \A r \in {Report1, Report2} :
              /\ f[r] \in ReportFiles
              /\ f[ProcessedPath(r)] = NoFile
        /\ f[RESULTS_FILE] \in {NoFile, File(JsonDump(<<EarlierRecord>>)),
                                File(<<Token("[")>>)}}

\* the records results.json holds for a reader
Persisted(f) ==
    LET doc == JsonLoad(f[RESULTS_FILE].bytes)
    IN  IF f[RESULTS_FILE].here /\ doc.ok
        THEN {doc.list[j] : j \in 1..Len(doc.list)}
        ELSE {}

(***************************************************************************)
(* Actions of parse_html                                                   *)
(***************************************************************************)
\* lines 13-20, run when the module is loaded
ParseLoad ==
    /\ call.op = "parse_main"
    /\ fpc = "check"
    /\ loc' = [loc EXCEPT !.results =
                  IF fs[RESULTS_FILE].here
                  THEN JsonLoad(fs[RESULTS_FILE].bytes).list
                  ELSE <<>>]
    /\ fpc' = "list"
    /\ UNCHANGED <<fs, fs0, call, ret, log>>
    /\ UNCHANGED <<dashVars, colorVars, codecVars>>

\* lines 87-92
ParseList ==
    /\ call.op = "parse_main"
    /\ fpc = "list"
    /\ \E q \in Listings({r \in {Report1, Report2} : fs[r].here}) :
          IF q = <<>>
          THEN /\ ret' = Returned(NoPath)
               /\ fpc' = "returned"
               /\ UNCHANGED loc
          ELSE /\ loc' = [loc EXCEPT !.todo = q]
               /\ fpc' = "parse"
               /\ UNCHANGED ret
    /\ UNCHANGED <<fs, fs0, call, log>>
    /\ UNCHANGED <<dashVars, colorVars, codecVars>>

\* lines 93-102, one round of the loop: the record is appended to the list
\* in memory and the report moved to the processed folder, or the report is
\* skipped
ParseOne ==
    /\ call.op = "parse_main"
    /\ fpc = "parse"
    /\ LET html_path == Head(loc.todo)
           parsed == ParseHtmlFile(fs, html_path)
       IN  IF parsed.ok
           THEN /\ loc' = [loc EXCEPT !.results = Append(@, parsed.rec),
                                      !.todo = Tail(@)]
                /\ fs' = FsReplace(fs, html_path, ProcessedPath(html_path))
                /\ log' = Append(log, [op |-> "move", path |-> html_path])
           ELSE /\ loc' = [loc EXCEPT !.todo = Tail(@)]
                /\ UNCHANGED <<fs, log>>
    /\ fpc' = IF Len(loc.todo) > 1 THEN "parse" ELSE "save"
    /\ UNCHANGED <<fs0, call, ret>>
    /\ UNCHANGED <<dashVars, colorVars, codecVars>>

\* line 104: results.json is opened for writing, which empties it
SaveOpen ==
    /\ call.op = "parse_main"
    /\ fpc = "save"
    /\ fs' = FsPut(fs, RESULTS_FILE, <<>>)
    /\ fpc' = "dump"
    /\ UNCHANGED <<fs0, call, loc, ret, log>>
    /\ UNCHANGED <<dashVars, colorVars, codecVars>>

\* lines 105-107
SaveDump ==
    /\ call.op = "parse_main"
    /\ fpc = "dump"
    /\ \E b \in WriteSteps(fs[RESULTS_FILE].bytes, JsonDump(loc.results)) :
          /\ fs' = FsPut(fs, RESULTS_FILE, b)
          /\ IF b = JsonDump(loc.results)
             THEN fpc' = "returned" /\ ret' = Returned(NoPath)
             ELSE fpc' = "dump" /\ UNCHANGED ret
    /\ UNCHANGED <<fs0, call, loc, log>>
    /\ UNCHANGED <<dashVars, colorVars, codecVars>>

\* the process is stopped where it is: a kill, a power cut, an exception of
\* the statement it is at
Interrupt ==
    /\ Running
    /\ fpc' = "crashed"
    /\ UNCHANGED <<fs, fs0, call, loc, ret, log>>
    /\ UNCHANGED <<dashVars, colorVars, codecVars>>

(***************************************************************************)
(* Specifications                                                          *)
(***************************************************************************)
DashIdle ==
    /\ results = <<>>
    /\ i = 0
    /\ data = EmptyIndex
    /\ pc = "idle"
    /\ page = NoPage

ColorIdle ==
    /\ record = NoRecord
    /\ color = "idle"

CodecIdle ==
    /\ plaintext = <<>>
    /\ password = ""
    /\ salt = <<>>
    /\ nonce = <<>>
    /\ blob = <<>>
    /\ intact = FALSE
    /\ enc = "idle"
    /\ dec = NoOutcome

FileIdle ==
    /\ fs = <<>>
    /\ fs0 = <<>>
    /\ call = NoCall
    /\ fpc = "idle"
    /\ loc = NoLocals
    /\ ret = NoReturn
    /\ log = <<>>

DashStart ==
    /\ i = 0
    /\ data = EmptyIndex
    /\ pc = "loop"
    /\ page = NoPage

\* build_dashboard on every results list of at most MaxRecords records
Init ==
    /\ \E n \in 0..MaxRecords : results \in ShortInputs(n)
    /\ DashStart
    /\ ColorIdle
    /\ CodecIdle
    /\ FileIdle

Next == ReturnEmpty \/ LoopStep \/ Render

Spec == Init /\ [][Next]_vars

\* build_dashboard on the long histories
InitWindow ==
    /\ results \in LongInputs
    /\ DashStart
    /\ ColorIdle
    /\ CodecIdle
    /\ FileIdle

SpecWindow == InitWindow /\ [][Next]_vars

\* get_color on every combination of counts
InitColor ==
    /\ DashIdle
    /\ record \in ColorInputs
    /\ color = ""
    /\ CodecIdle
    /\ FileIdle

NextColor == Classify

SpecColor == InitColor /\ [][NextColor]_vars

\* encrypt_data and decrypt_data
InitCodec ==
    /\ DashIdle
    /\ ColorIdle
    /\ plaintext = <<>>
    /\ password = ""
    /\ salt = <<>>
    /\ nonce = <<>>
    /\ blob = <<>>
    /\ intact = FALSE
    /\ enc = "none"
    /\ dec = NoOutcome
    /\ FileIdle

NextCodec == Encrypt \/ Truncate \/ Tamper \/ Decrypt

SpecCodec == InitCodec /\ [][NextCodec]_vars

\* encrypt_file, decrypt_file_to_path and process_attachments.main, from
\* every call and file system of the model, stopped at any statement or run
\* to the end
InitFile ==
    /\ DashIdle
    /\ ColorIdle
    /\ CodecIdle
    /\ call \in EncryptCalls \cup DecryptCalls \cup MainCalls
    /\ fs0 \in IF call.op = "main" THEN MainFs ELSE InitialFs(call)
    /\ fs = fs0
    /\ fpc = "check"
    /\ loc = NoLocals
    /\ ret = NoReturn
    /\ log = <<>>

NextFile ==
    \/ EncCheck \/ EncRead \/ EncEncrypt \/ EncOpen \/ EncWrite
    \/ EncReplace \/ EncRemove
    \/ DecRead \/ DecOpen \/ DecWrite \/ DecReplace \/ DecRemove
    \/ MainList \/ Extract \/ PutOpen \/ PutWrite \/ PutReplace \/ PutFails
    \/ Decide
    \/ Interrupt

SpecFile == InitFile /\ [][NextFile]_vars

\* parse_html, loaded and run on every folder content of the model, stopped at
\* any statement or run to the end
InitParse ==
    /\ DashIdle
    /\ ColorIdle
    /\ CodecIdle
    /\ call \in ParseCalls
    /\ fs0 \in ParseFs
    /\ fs = fs0
    /\ fpc = "check"
    /\ loc = NoLocals
    /\ ret = NoReturn
    /\ log = <<>>

NextParse ==
    ParseLoad \/ ParseList \/ ParseOne \/ SaveOpen \/ SaveDump \/ Interrupt

SpecParse == InitParse /\ [][NextParse]_vars

(***************************************************************************)
(* Properties                                                              *)
(***************************************************************************)
\* build_dashboard has left its loop: by a TypeError, or to render, or
\* because there was nothing to do
Finished == pc \in {"raised", "rendered", "empty"}

\* what this run of the loop produced, in the shape Ingest returns
ThisRun ==
    IF pc = "raised"
    THEN [data |-> EmptyIndex, outcome |-> "TypeError"]
    ELSE [data |-> data, outcome |-> "done"]

Reordered(f) == [j \in 1..Len(results) |-> results[f[j]]]

C2_NoTies ==
    \A a, b \in 1..Len(results) :
        LET ra == results[a]
            rb == results[b]
        IN  (/\ ra # rb
             /\ Truthy(DateSource(ra)) /\ Truthy(DateSource(rb))
             /\ Key(ra) = Key(rb)
             /\ ra.end.kind \in {"str", "absent"}
             /\ rb.end.kind \in {"str", "absent"})
            => ra.end # rb.end

C3_IdempotentUnderDuplication ==
    Finished => Ingest(results \o results) = ThisRun

\* C4: the entry of a key is the processed record of that key that is
\* maximal by end timestamp, then start timestamp, then position (a missing
\* or null timestamp being the smallest).
C4_LexicographicMaxKept ==
    \A k \in DOMAIN data :
        LET cands == {c \in 1..i : Truthy(DateSource(results[c]))
                                   /\ Key(results[c]) = k}
            stamp(v) == IF v.kind = "str" THEN v.s[1] * 24 + v.s[2] ELSE 0
            before(c, e) ==
                LET rc == results[c]
                    re == results[e]
                IN  \/ stamp(rc.end) < stamp(re.end)
                    \/ /\ stamp(rc.end) = stamp(re.end)
                       /\ stamp(rc.start) < stamp(re.start)
                    \/ /\ stamp(rc.end) = stamp(re.end)
                       /\ stamp(rc.start) = stamp(re.start)
                       /\ c < e
            best == CHOOSE c \in cands : \A e \in cands \ {c} : before(e, c)
        IN  data[k] = [results[best] EXCEPT !.color = get_color(results[best])]

\* C5: a record with total > 0 is red when its sub-counts do not add up to
\* the total, else green when all passed without retry, yellow when all
\* passed with retries, and red otherwise.
C5_ColorOfNonEmptyRun ==
    LET num(v) == IF v.kind = "int" THEN v.n ELSE 0
        total == num(record.test_cases)
        passed == num(record.passed)
        sum == passed + num(record.failed) + num(record.error)
                   + num(record.incomplete) + num(record.skipped)
        retry == num(record.retry_count)
    IN  (color \in {"red", "yellow", "green"} /\ total > 0)
        => color = CASE sum # total -> "red"
                     [] sum = total /\ passed = total /\ retry = 0 -> "green"
                     [] sum = total /\ passed = total /\ retry > 0 -> "yellow"
                     [] OTHER -> "red"

\* C5 witness: a record with a null count and retries that adds up and is
\* classified yellow.
C5_Witness ==
    /\ color = "yellow"
    /\ record.test_cases = IntV(MaxCount)
    /\ record.failed = Null
    /\ record.skipped = Absent

\* C6: a record whose total is 0, missing or null is classified red.
C6_ZeroTotalIsRed ==
    (/\ color \in {"red", "yellow", "green"}
     /\ record.test_cases \in {IntV(0), Null, Absent})
    => color = "red"

\* C7 as stated: once rendered, the index the page carries has no entry
\* older than the 365th most recent of all dates in it.
C7_IndexHoldsOnlyWindow ==
    pc = "rendered" =>
        \A k \in DOMAIN page.data :
            Cardinality({d \in {x.date : x \in DOMAIN page.data} :
                            LexGreater(d, k.date)}) < WindowSize

\* C7, amended: the table has date columns and cells only for the 365 most
\* recent dates of the union of dates over all projects and suites (a
\* global cut, not one per suite), while the index the page embeds is not
\* pruned: it is the whole index the loop built.
C7_TableHoldsOnlyWindow ==
    pc = "rendered" =>
        LET dates == {x.date : x \in DOMAIN data}
            recent == {d \in dates :
                          Cardinality({e \in dates : LexGreater(e, d)}) < WindowSize}
        IN  /\ Range(page.all_dates) = recent
            /\ Len(page.all_dates) = Cardinality(recent)
            /\ page.cells = {k \in DOMAIN data : k.date \in recent}
            /\ page.data = data

\* C7 witness: a suite with a single date loses its cell because another
\* suite has 365 later dates, and its entry is still in the embedded index.
C7_Witness ==
    /\ pc = "rendered"
    /\ \E k \in DOMAIN page.data :
          /\ k \notin page.cells
          /\ Cardinality({x \in DOMAIN page.data : x.suite = k.suite}) = 1

\* C8 as stated: a kept record that has an end timestamp is filed under the
\* date of its end timestamp.
C8_FiledUnderEndDate ==
    \A k \in DOMAIN data :
        data[k].end.kind = "str" => k.date = <<data[k].end.s[1]>>

\* C8, amended: a kept record is filed under the date of its start
\* timestamp whenever it has one, and under the date of its end timestamp
\* only when the start is missing.
C8_FiledUnderStartDate ==
    \A k \in DOMAIN data :
        k.date = IF data[k].start.kind = "str"
                 THEN <<data[k].start.s[1]>>
                 ELSE <<data[k].end.s[1]>>

\* C8 witness: a kept record whose start and end fall on different dates.
C8_Witness ==
    \E k \in DOMAIN data :
        /\ data[k].start.kind = "str"
        /\ data[k].end.kind = "str"
        /\ data[k].start.s[1] # data[k].end.s[1]

\* C9: the blob encrypt_data returned unpacks to the salt, the nonce and the
\* ciphertext that were packed, and decrypt_data with the same password
\* returns the payload.
C9_RoundTrip ==
    /\ (enc = "ok" /\ intact) =>
          LET u == UnpackEncrypted(blob)
          IN  /\ u.ok
              /\ u.salt = salt
              /\ u.nonce = nonce
              /\ u.ciphertext =
                     AesGcmEncrypt(DeriveKey(password, salt), nonce, plaintext)
    /\ (dec.status # "none" /\ intact /\ dec.pw = password) =>
          (dec.status = "ok" /\ dec.out = plaintext)

\* C9 witness: a non-empty payload came back from a blob whose salt and
\* nonce are not constant.
C9_Witness ==
    /\ dec.status = "ok"
    /\ intact
    /\ Len(plaintext) = 2
    /\ plaintext[1] # plaintext[2]
    /\ salt[1] # salt[2]
    /\ nonce[1] # nonce[2]

\* C10: decrypt_data with a non-empty password rejects a blob shorter than
\* salt + nonce + tag as malformed, before deriving a key or calling the
\* cipher.
C10_ShortBlobIsMalformed ==
    (/\ dec.status # "none"
     /\ ~PasswordMissing(dec.pw)
     /\ Len(blob) < SALT_SIZE + NONCE_SIZE + TAG_SIZE)
    => (dec.status = "MalformedBlob" /\ ~dec.derived /\ ~dec.opened)

\* the blob encrypt_data produced in this run
ProducedBlob == EncryptData(plaintext, password, salt, nonce).blob

\* b differs from the blob produced in exactly one byte
OneByteChanged(b, produced) ==
    /\ Len(b) = Len(produced)
    /\ Cardinality({j \in 1..Len(b) : b[j] # produced[j]}) = 1

\* C11: decrypt_data returns a plaintext only for the very blob encrypt_data
\* produced and the password it was produced with; with another non-empty
\* password, or with one byte of the blob changed, it fails with InvalidTag
\* and returns nothing.
C11_OnlyAuthenticBlobOpens ==
    dec.status # "none" =>
       LET produced == ProducedBlob
       IN  /\ dec.status = "ok" =>
                 (blob = produced /\ dec.pw = password /\ dec.out = plaintext)
           /\ dec.status # "ok" => dec.out = <<>>
           /\ (/\ ~PasswordMissing(dec.pw)
               /\ \/ (blob = produced /\ dec.pw # password)
                  \/ OneByteChanged(blob, produced))
              => dec.status = "InvalidTag"

\* C11 witness: the right password was refused on a blob with one changed
\* byte of a two-byte payload.
C11_Witness ==
    /\ dec.status = "InvalidTag"
    /\ dec.pw = password
    /\ Len(plaintext) = 2
    /\ OneByteChanged(blob, ProducedBlob)

\* every record of the run has a start or an end timestamp
AllTimestamped == \A j \in 1..Len(results) : Truthy(DateSource(results[j]))

\* C15: the aggregation loop never raises on records that each have at
\* least one timestamp, also when a record with an absent or null end shares
\* its key with an earlier record.
C15_LoopNeverRaises == AllTimestamped => pc # "raised"

\* b opens under pw to exactly the bytes d
OpensTo(b, pw, d) ==
    LET res == DecryptData(b, pw)
    IN  res.status = "ok" /\ res.out = d

\* os.remove(p) was called and succeeded
Removed(p) == \E k \in 1..Len(log) : log[k] = [op |-> "remove", path |-> p]

\* C12: at every point of encrypt_file, stopped or not, the file at out_path
\* is what it was when the call started or the complete new blob, never a
\* part of one; it is absent only if it was absent before or if os.remove
\* took it away (out_path being in_path).
C12_FinalPathNeverPartial ==
    call.op = "encrypt_file" =>
       LET out == EffectiveOut(call)
       IN  \/ fs[out] = fs0[out]
           \/ /\ fs[out] = File(loc.enc)
              /\ OpensTo(loc.enc, call.password, fs0[call.in_path].bytes)
           \/ fs[out] = NoFile /\ Removed(out)

\* C12 witness: encrypt_file was stopped with part of the blob in the
\* temporary file, and the blob stored before is still at out_path.
C12_Witness ==
    /\ call.op = "encrypt_file"
    /\ fpc = "crashed"
    /\ fs0[EffectiveOut(call)].here
    /\ fs[EffectiveOut(call)] = fs0[EffectiveOut(call)]
    /\ loc.tmp_path # NoPath
    /\ Len(fs[loc.tmp_path].bytes) > 0
    /\ Len(fs[loc.tmp_path].bytes) < Len(loc.enc)

\* an os.remove succeeds in this step
RemovalStep ==
    /\ Len(log') = Len(log) + 1
    /\ log'[Len(log')].op = "remove"

\* the artifact derived from the source is complete at its final path
Committed ==
    CASE call.op = "encrypt_file" ->
            /\ fs[loc.out_path] = File(loc.enc)
            /\ OpensTo(loc.enc, call.password, fs0[call.in_path].bytes)
      [] call.op = "decrypt_file_to_path" ->
            /\ fs[loc.out_path] = File(loc.plaintext)
            /\ OpensTo(fs0[call.in_path].bytes, call.password, loc.plaintext)
      [] OTHER ->
            LET zip_path == Head(loc.todo)
                res == ExtractHtml(fs, zip_path, call.password)
                stored == fs[HtmlPath(zip_path)]
            IN  /\ res.kind = "ok"
                /\ stored.here
                /\ OpensTo(stored.bytes, call.password, res.html)

\* the path the call may remove: in_path, enc_path, the ZIP at hand
Source == IF call.op = "main" THEN Head(loc.todo) ELSE call.in_path

C14_MissingPasswordNoEffect ==
    (call.op = "encrypt_file" /\ PasswordMissing(call.password)) =>
       /\ fs = fs0
       /\ log = <<>>
       /\ loc.enc = <<>>
       /\ fpc # "returned"
       /\ fpc \notin {"open", "write", "replace", "remove"}
       /\ (fpc = "raised" /\ fs0[call.in_path].here) => ret = Raised("ValueError")

\* C14 witness: encrypt_file raised on password None with remove_original
\* True and in_path present.
C14_Witness ==
    /\ call.op = "encrypt_file"
    /\ call.password = NoPassword
    /\ call.remove
    /\ fs0[call.in_path].here
    /\ fpc = "raised"
    /\ ret = Raised("ValueError")

\* C17: when encrypt_file returns, the returned path holds a file that opens
\* under the password to the bytes in_path held when the call started.
C17_ReturnedPathOpens ==
    (call.op = "encrypt_file" /\ fpc = "returned") =>
       /\ fs[ret.path].here
       /\ OpensTo(fs[ret.path].bytes, call.password, fs0[call.in_path].bytes)

\* the reports this run has moved to the processed folder
Moved == {r \in {Report1, Report2} : fs0[r].here /\ ~fs[r].here}

\* C16: at every point of parse_html.main, stopped or not, every report
\* already moved out of the input folder has its record in results.json as
\* stored on disk.
C16_MovedReportsArePersisted ==
    \A r \in Moved :
       \E rec \in Persisted(fs) : rec.html_file = ProcessedPath(r)
====
